---- MODULE Spec2Model ----
(***************************************************************************)
(* Authentication and authorization core of the PMB registration API      *)
(* (src/main.py): password hashing, token issuance and validation, the    *)
(* auth gate and the register / login / me / admin-listing handlers over  *)
(* the "user" collection of the document store.                           *)
(*                                                                         *)
(* Time is counted in clock ticks; a second has TicksPerSecond ticks.     *)
(* Strings of the program are TLA+ strings; a Python None or an absent    *)
(* dictionary key is an absent record field or an empty sequence.         *)
(***************************************************************************)
EXTENDS Integers, Sequences, FiniteSets, TLC

VARIABLES users, pc, req, now, tokens, registered, resp

vars == <<users, pc, req, now, tokens, registered, resp>>

(***************************************************************************)
(* Bounds of the model.                                                    *)
(***************************************************************************)
MaxUsers == 2
MaxTokens == 1
MaxSkew == 2
TicksPerSecond == 2

Procs == {"w1", "w2"}
Emails == {"a@x.com", "b@x.com"}
Passwords == {"secret1", "secret2"}
Roles == {"applicant", "admin"}
Salts == {"saltA", "saltB"}
FullName == "Ann Lee"

Range(f) == {f[i] : i \in DOMAIN f}

(***************************************************************************)
(* Configuration (src/main.py:27-29).                                      *)
(***************************************************************************)
SECRET_KEY == "supersecretkeychange"
OtherKey == "someotherkey"
ACCESS_TOKEN_EXPIRE_MINUTES == 60 * 12
DbConfigured == TRUE

SecondsPerMinute == 60
DefaultTTL == ACCESS_TOKEN_EXPIRE_MINUTES * SecondsPerMinute * TicksPerSecond

(***************************************************************************)
(* ObjectId <-> string.  str(oid) is the 24-digit hex form; ObjectId(s)   *)
(* raises InvalidId on any other string.                                   *)
(***************************************************************************)
OidHex == << "650000000000000000000001", "650000000000000000000002",
             "650000000000000000000003", "650000000000000000000004",
             "650000000000000000000005" >>
ObjectIds == DOMAIN OidHex

StrOfObjectId(oid) == OidHex[oid]

ObjectId(s) ==
    IF s \in Range(OidHex)
    THEN [raised |-> FALSE, oid |-> CHOOSE i \in ObjectIds : OidHex[i] = s]
    ELSE [raised |-> TRUE, oid |-> 0]

(***************************************************************************)
(* Credential hasher.  bcrypt(salt, plaintext) is an injective table into  *)
(* opaque hash strings; the salt is readable from the hash.                *)
(***************************************************************************)
Bcrypt == [s \in Salts |-> [p \in Passwords |->
    CASE s = "saltA" /\ p = "secret1" -> "$2b$12$saltA.h1A"
      [] s = "saltA" /\ p = "secret2" -> "$2b$12$saltA.h2A"
      [] s = "saltB" /\ p = "secret1" -> "$2b$12$saltB.h1B"
      [] s = "saltB" /\ p = "secret2" -> "$2b$12$saltB.h2B" ]]

BcryptHashes == {Bcrypt[s][p] : s \in Salts, p \in Passwords}
SaltOf(h) == CHOOSE s \in Salts : h \in Range(Bcrypt[s])

\* stored values the hasher cannot process: empty, corrupt, foreign scheme
BadHashes == {"", "$2b$12$trunc", "$1$md5crypt$x"}

hash_password_identity(password, salt) == password

hash_password(password, salt) == Bcrypt[salt][password]

\* pwd_context.verify: raises on a value it cannot identify or parse
pwd_context_verify(plain, hashed) ==
    IF hashed \notin BcryptHashes
    THEN [raised |-> TRUE, value |-> FALSE]
    ELSE [raised |-> FALSE,
          value |-> plain \in Passwords /\ Bcrypt[SaltOf(hashed)][plain] = hashed]

verify_password_uncaught(plain, hashed) == pwd_context_verify(plain, hashed)

\* try: return pwd_context.verify(...)  except Exception: return False
verify_password(plain, hashed) ==
    IF pwd_context_verify(plain, hashed).raised
    THEN [raised |-> FALSE, value |-> FALSE]
    ELSE pwd_context_verify(plain, hashed)

(***************************************************************************)
(* Token service.  A token is its signing key and its claim set; a        *)
(* malformed token has no readable segments.  jwt.encode stores exp as    *)
(* whole seconds; jwt.decode compares it with the clock in whole seconds. *)
(***************************************************************************)
Malformed == [wellformed |-> FALSE, key |-> "", claims |-> [junk |-> "x"]]

SecondsOf(t) == t \div TicksPerSecond

jwt_encode(claims, key) ==
    [wellformed |-> TRUE, key |-> key,
     claims |-> [claims EXCEPT !.exp = SecondsOf(claims.exp)]]

\* expires_delta is <<>> (None) or <<d>>; "expires_delta or default" also
\* takes the default for a zero timedelta
create_access_token_short(data, expires_delta, t) ==
    LET delta == IF expires_delta = <<>> \/ expires_delta = <<0>>
                 THEN DefaultTTL - TicksPerSecond ELSE expires_delta[1]
    IN  jwt_encode(data @@ [exp |-> t + delta], SECRET_KEY)

create_access_token(data, expires_delta, t) ==
    LET delta == IF expires_delta = <<>> \/ expires_delta = <<0>>
                 THEN DefaultTTL ELSE expires_delta[1]
        expire == t + delta
    IN  jwt_encode(data @@ [exp |-> expire], SECRET_KEY)

jwt_decode_inclusive(token, key, t) ==
    IF ~token.wellformed THEN [raised |-> TRUE, payload |-> [junk |-> "x"]]
    ELSE IF token.key # key THEN [raised |-> TRUE, payload |-> [junk |-> "x"]]
    ELSE IF "exp" \in DOMAIN token.claims /\ token.claims.exp <= SecondsOf(t)
         THEN [raised |-> TRUE, payload |-> [junk |-> "x"]]
    ELSE [raised |-> FALSE, payload |-> token.claims]

\* raises JWTError on a malformed token, a bad signature or exp < now
jwt_decode(token, key, t) ==
    IF ~token.wellformed THEN [raised |-> TRUE, payload |-> [junk |-> "x"]]
    ELSE IF token.key # key THEN [raised |-> TRUE, payload |-> [junk |-> "x"]]
    ELSE IF "exp" \in DOMAIN token.claims /\ token.claims.exp < SecondsOf(t)
         THEN [raised |-> TRUE, payload |-> [junk |-> "x"]]
    ELSE [raised |-> FALSE, payload |-> token.claims]

(***************************************************************************)
(* Account store: the "user" collection in insertion order.  A document   *)
(* always has _id, full_name and email; password and role may be absent.  *)
(***************************************************************************)
Get(doc, k, default) == IF k \in DOMAIN doc THEN doc[k] ELSE default

\* find_one({"email": e}): the first matching document, <<>> for None
find_one_email(coll, e) ==
    LET hits == {i \in DOMAIN coll : coll[i].email = e}
    IN  IF hits = {} THEN <<>>
        ELSE << coll[CHOOSE i \in hits : \A j \in hits : i <= j] >>

find_one_id(coll, oid) ==
    LET hits == {i \in DOMAIN coll : coll[i]._id = oid}
    IN  IF hits = {} THEN <<>>
        ELSE << coll[CHOOSE i \in hits : \A j \in hits : i <= j] >>

\* insert_one: the store assigns a fresh _id and appends; the collection
\* carries no uniqueness constraint on email
insert_one(coll, data) ==
    LET oid == Len(coll) + 1
    IN  [coll |-> Append(coll, data @@ [_id |-> oid]), inserted_id |-> oid]

(***************************************************************************)
(* Responses.                                                              *)
(***************************************************************************)
HTTPException(status, detail) == [status |-> status, body |-> [detail |-> detail]]
ServerError == HTTPException(500, "Internal Server Error")
DbNotConfigured == HTTPException(500, "Database not configured")
credentials_exception == HTTPException(401, "Tidak terautentikasi")

MeResponse(id, full_name, email, role) ==
    [id |-> id, full_name |-> full_name, email |-> email, role |-> role]

TokenResponse(access_token) ==
    [access_token |-> access_token, token_type |-> "bearer"]

\* the "applicant" collection read by the listing, and serialize_doc
ApplicantDocs ==
    << [_id |-> 5, full_name |-> "Budi Santoso", email |-> "budi@x.com",
        study_program |-> "Informatika"] >>

serialize_doc(doc) ==
    [k \in (DOMAIN doc \ {"_id"}) \cup {"id"} |->
        IF k = "id" THEN StrOfObjectId(doc._id) ELSE doc[k]]

(***************************************************************************)
(* Auth gate (get_current_user) and the handlers, as functions of the     *)
(* request, the store and the clock.                                       *)
(***************************************************************************)
Denied(error) == [failed |-> TRUE, error |-> error, user |-> <<>>]

get_current_user_reveals_missing(token, coll, t) ==
    LET dec == jwt_decode(token, SECRET_KEY, t)
    IN  IF dec.raised THEN Denied(credentials_exception)
        ELSE IF "sub" \notin DOMAIN dec.payload THEN Denied(credentials_exception)
        ELSE LET parsed == ObjectId(dec.payload.sub)
             IN  IF parsed.raised THEN Denied(ServerError)
                 ELSE LET user == find_one_id(coll, parsed.oid)
                      IN  IF user = <<>>
                          THEN Denied(HTTPException(404, "User tidak ditemukan"))
                          ELSE [failed |-> FALSE, error |-> credentials_exception,
                                user |-> user]

get_current_user(token, coll, t) ==
    IF ~DbConfigured THEN Denied(DbNotConfigured)
    ELSE LET dec == jwt_decode(token, SECRET_KEY, t)
         IN  IF dec.raised THEN Denied(credentials_exception)
             ELSE IF "sub" \notin DOMAIN dec.payload
                  THEN Denied(credentials_exception)
             ELSE LET parsed == ObjectId(dec.payload.sub)
                  IN  IF parsed.raised THEN Denied(ServerError)
                      ELSE LET user == find_one_id(coll, parsed.oid)
                           IN  IF user = <<>>
                               THEN Denied(credentials_exception)
                               ELSE [failed |-> FALSE,
                                     error |-> credentials_exception,
                                     user |-> user]

me(token, coll, t) ==
    LET cu == get_current_user(token, coll, t)
    IN  IF cu.failed THEN cu.error
        ELSE [status |-> 200,
              body |-> MeResponse(StrOfObjectId(cu.user[1]._id),
                                  cu.user[1].full_name, cu.user[1].email,
                                  Get(cu.user[1], "role", "applicant"))]

admin_list_applicants_unauthenticated(token, coll, t, storeFails) ==
    LET cu == get_current_user(token, coll, t)
    IN  IF cu.failed THEN cu.error
        ELSE IF Get(cu.user[1], "role", "applicant") # "admin"
             THEN credentials_exception
        ELSE IF storeFails THEN HTTPException(500, "store error")
        ELSE [status |-> 200,
              body |-> [items |-> [i \in DOMAIN ApplicantDocs |->
                                      serialize_doc(ApplicantDocs[i])]]]

admin_list_applicants_by_claim(token, coll, t, storeFails) ==
    LET cu == get_current_user(token, coll, t)
    IN  IF cu.failed THEN cu.error
        ELSE IF Get(token.claims, "role", "applicant") # "admin"
             THEN HTTPException(403, "Akses ditolak")
        ELSE IF storeFails THEN HTTPException(500, "store error")
        ELSE [status |-> 200,
              body |-> [items |-> [i \in DOMAIN ApplicantDocs |->
                                      serialize_doc(ApplicantDocs[i])]]]

\* storeFails: get_documents raised
admin_list_applicants(token, coll, t, storeFails) ==
    LET cu == get_current_user(token, coll, t)
    IN  IF cu.failed THEN cu.error
        ELSE IF Get(cu.user[1], "role", "applicant") # "admin"
             THEN HTTPException(403, "Akses ditolak")
        ELSE IF storeFails THEN HTTPException(500, "store error")
        ELSE [status |-> 200,
              body |-> [items |-> [i \in DOMAIN ApplicantDocs |->
                                      serialize_doc(ApplicantDocs[i])]]]

login_reveals_unknown_email(payload, coll, t) ==
    LET user == find_one_email(coll, payload.email)
    IN  IF user = <<>> THEN HTTPException(404, "Email tidak terdaftar")
        ELSE LET v == verify_password(payload.password, Get(user[1], "password", ""))
             IN  IF v.raised THEN ServerError
                 ELSE IF ~v.value
                      THEN HTTPException(401, "Email atau password salah")
                 ELSE [status |-> 200,
                       body |-> TokenResponse(create_access_token(
                           [sub |-> StrOfObjectId(user[1]._id),
                            email |-> user[1].email,
                            role |-> Get(user[1], "role", "applicant")],
                           <<>>, t))]

login(payload, coll, t) ==
    IF ~DbConfigured THEN DbNotConfigured
    ELSE LET user == find_one_email(coll, payload.email)
         IN  IF user = <<>> THEN HTTPException(401, "Email atau password salah")
             ELSE LET v == verify_password(payload.password,
                                           Get(user[1], "password", ""))
                  IN  IF v.raised THEN ServerError
                      ELSE IF ~v.value
                           THEN HTTPException(401, "Email atau password salah")
                      ELSE [status |-> 200,
                            body |-> TokenResponse(create_access_token(
                                [sub |-> StrOfObjectId(user[1]._id),
                                 email |-> user[1].email,
                                 role |-> Get(user[1], "role", "applicant")],
                                <<>>, t))]

(***************************************************************************)
(* State.                                                                  *)
(*   users   the "user" collection                                         *)
(*   pc,req  position and request of each worker inside register           *)
(*   now     the clock, in ticks                                           *)
(*   tokens  tokens issued so far, with their issue time and ttl           *)
(*   registered  the registrations answered with success (history)         *)
(*   resp    the last response sent, with the request it answers           *)
(***************************************************************************)
NoReq == [none |-> TRUE]
NoResp == [op |-> "none", arg |-> NoReq, status |-> 0, body |-> NoReq]

UserInputs ==
    [full_name : {FullName}, email : Emails, password : Passwords,
     role : Roles, is_active : {TRUE}]

LoginInputs == [email : Emails, password : Passwords]

Reply(op, arg, r) == [op |-> op, arg |-> arg, status |-> r.status, body |-> r.body]

Init ==
    /\ users = <<>>
    /\ pc = [p \in Procs |-> "idle"]
    /\ req = [p \in Procs |-> NoReq]
    /\ now = 0
    /\ tokens = {}
    /\ registered = {}
    /\ resp = NoResp

\* register, lines 115-120: the find-by-email step
RegisterFind(p, user) ==
    /\ pc[p] = "idle"
    /\ IF ~DbConfigured
       THEN /\ resp' = Reply("register", user, DbNotConfigured)
            /\ UNCHANGED <<pc, req>>
       ELSE IF find_one_email(users, user.email) # <<>>
       THEN /\ resp' = Reply("register", user,
                             HTTPException(400, "Email sudah terdaftar"))
            /\ UNCHANGED <<pc, req>>
       ELSE /\ Len(users) + Cardinality({q \in Procs : pc[q] = "insert"}) < MaxUsers
            /\ pc' = [pc EXCEPT ![p] = "insert"]
            /\ req' = [req EXCEPT ![p] = user]
            /\ UNCHANGED resp
    /\ UNCHANGED <<users, now, tokens, registered>>

\* register, lines 122-128: hash, insert, respond
RegisterInsert(p) ==
    /\ pc[p] = "insert"
    /\ \E salt \in Salts :
        LET user == req[p]
            data == [user EXCEPT !.password = hash_password(user.password, salt)]
            result == insert_one(users, data)
        IN  /\ users' = result.coll
            /\ resp' = Reply("register", user,
                   [status |-> 201,
                    body |-> MeResponse(StrOfObjectId(result.inserted_id),
                                        user.full_name, user.email, user.role)])
            /\ registered' = registered \cup
                   {[id |-> StrOfObjectId(result.inserted_id), email |-> user.email,
                     password |-> user.password, role |-> user.role]}
    /\ pc' = [pc EXCEPT ![p] = "idle"]
    /\ req' = [req EXCEPT ![p] = NoReq]
    /\ UNCHANGED <<now, tokens>>

Login(payload) ==
    LET r == login(payload, users, now)
    IN  /\ resp' = Reply("login", payload, r)
        /\ tokens' = IF r.status = 200 /\ Cardinality(tokens) < MaxTokens
                     THEN tokens \cup {[token |-> r.body.access_token,
                                        issued_at |-> now, ttl |-> <<>>]}
                     ELSE tokens
        /\ UNCHANGED <<users, pc, req, now, registered>>

Me(token) ==
    /\ resp' = Reply("me", token, me(token, users, now))
    /\ UNCHANGED <<users, pc, req, now, tokens, registered>>

AdminListApplicants(token) ==
    /\ \E storeFails \in BOOLEAN :
          resp' = Reply("admin", token,
                        admin_list_applicants(token, users, now, storeFails))
    /\ UNCHANGED <<users, pc, req, now, tokens, registered>>

\* the clock moves on by d ticks: a long step once, short steps within
\* MaxSkew seconds of a multiple of the default ttl
Advance(d) ==
    /\ d > 0
    /\ IF d < DefaultTTL
       THEN (now % DefaultTTL) < MaxSkew * TicksPerSecond
       ELSE now < DefaultTTL
    /\ now' = now + d
    /\ resp' = NoResp
    /\ UNCHANGED <<users, pc, req, tokens, registered>>

HeldTokens == {r.token : r \in tokens}

Next ==
    \/ \E p \in Procs, user \in UserInputs : RegisterFind(p, user)
    \/ \E p \in Procs : RegisterInsert(p)
    \/ \E payload \in LoginInputs : Login(payload)
    \/ \E token \in HeldTokens : Me(token)
    \/ \E token \in HeldTokens : AdminListApplicants(token)
    \/ Advance(DefaultTTL + TicksPerSecond)

Spec == Init /\ [][Next]_vars

(***************************************************************************)
(* The auth gate over an existing store.  The store starts with accounts  *)
(* registered earlier; requests carry any token of TokenSpace, issued or  *)
(* not; the administrative process outside the API may change a role.     *)
(***************************************************************************)
Subjects == {"not-an-id", OidHex[1], OidHex[3]}
ExpClaims == {0, 1}

ClaimSets ==
    LET ident == [email : {"a@x.com"}, role : Roles]
        withSub == {c @@ [sub |-> x] : c \in ident, x \in Subjects}
        withExp == {c @@ [exp |-> e] : c \in ident \cup withSub, e \in ExpClaims}
    IN  ident \cup withSub \cup withExp

TokenSpace ==
    {Malformed} \cup
    {[wellformed |-> TRUE, key |-> k, claims |-> c] :
        k \in {SECRET_KEY, OtherKey}, c \in ClaimSets}

Account(oid, email, credential, role) ==
    [_id |-> oid, full_name |-> FullName, email |-> email, is_active |-> TRUE]
        @@ (IF credential = <<>> THEN <<>> ELSE [password |-> credential[1]])
        @@ (IF role = <<>> THEN <<>> ELSE [role |-> role[1]])

\* stores of at most two accounts with distinct emails
Stores(credentials, roles) ==
    {<<>>}
    \cup {<<Account(1, e, c, r)>> : e \in Emails, c \in credentials, r \in roles}
    \cup {<<Account(1, e, c1, r1), Account(2, CHOOSE f \in Emails : f # e, c2, r2)>> :
            e \in Emails, c1 \in credentials, r1 \in roles,
            c2 \in credentials, r2 \in roles}

GoodHash == hash_password("secret1", "saltA")

InitGate ==
    /\ users \in Stores({<<GoodHash>>}, {<<>>} \cup {<<r>> : r \in Roles})
    /\ pc = [p \in Procs |-> "idle"]
    /\ req = [p \in Procs |-> NoReq]
    /\ now = 0
    /\ tokens = {}
    /\ registered = {}
    /\ resp = NoResp

\* the administrative process outside the API rewrites an account's role
SetRole(i, role) ==
    /\ i \in DOMAIN users
    /\ Get(users[i], "role", "") # role
    /\ users' = [users EXCEPT ![i] =
                    [k \in DOMAIN users[i] \cup {"role"} |->
                        IF k = "role" THEN role ELSE users[i][k]]]
    /\ resp' = NoResp
    /\ UNCHANGED <<pc, req, now, tokens, registered>>

NextGate ==
    \/ \E payload \in LoginInputs : Login(payload)
    \/ \E token \in TokenSpace \cup HeldTokens : Me(token)
    \/ \E token \in TokenSpace \cup HeldTokens : AdminListApplicants(token)
    \/ \E i \in 1..MaxUsers, role \in Roles : SetRole(i, role)
    \/ Advance(TicksPerSecond)

SpecGate == InitGate /\ [][NextGate]_vars

(***************************************************************************)
(* Login over a store whose accounts may carry a credential the hasher    *)
(* cannot process, or none.                                                *)
(***************************************************************************)
InitLogin ==
    /\ users \in Stores({<<>>, <<GoodHash>>} \cup {<<h>> : h \in BadHashes},
                        {<<"applicant">>})
    /\ pc = [p \in Procs |-> "idle"]
    /\ req = [p \in Procs |-> NoReq]
    /\ now = 0
    /\ tokens = {}
    /\ registered = {}
    /\ resp = NoResp

NextLogin ==
    \/ \E payload \in LoginInputs : Login(payload)
    \/ \E token \in HeldTokens : Me(token)
    \/ Advance(TicksPerSecond)

SpecLogin == InitLogin /\ [][NextLogin]_vars

(***************************************************************************)
(* The token service alone: create_access_token applied with every ttl of *)
(* TTLInputs at any phase of the second, and the issued tokens presented  *)
(* to the gate as the clock advances.                                      *)
(***************************************************************************)
TTLInputs == {<<>>, <<0>>, <<1>>, <<TicksPerSecond>>, <<TicksPerSecond + 1>>}

InitToken ==
    /\ users = <<Account(1, "a@x.com", <<GoodHash>>, <<"applicant">>)>>
    /\ pc = [p \in Procs |-> "idle"]
    /\ req = [p \in Procs |-> NoReq]
    /\ now \in 0..(TicksPerSecond - 1)
    /\ tokens = {}
    /\ registered = {}
    /\ resp = NoResp

Issue(expires_delta) ==
    /\ Cardinality(tokens) < MaxTokens
    /\ tokens' = tokens \cup
          {[token |-> create_access_token(
                          [sub |-> StrOfObjectId(users[1]._id),
                           email |-> users[1].email,
                           role |-> Get(users[1], "role", "applicant")],
                          expires_delta, now),
            issued_at |-> now, ttl |-> expires_delta]}
    /\ resp' = NoResp
    /\ UNCHANGED <<users, pc, req, now, registered>>

NextToken ==
    \/ \E expires_delta \in TTLInputs : Issue(expires_delta)
    \/ \E token \in HeldTokens : Me(token)
    \/ Advance(1)
    \/ Advance(DefaultTTL)

SpecToken == InitToken /\ [][NextToken]_vars

(***************************************************************************)
(* Vocabulary of the properties.                                           *)
(***************************************************************************)
Protected == {"me", "admin"}
Unauthenticated == [status |-> 401, body |-> [detail |-> "Tidak terautentikasi"]]
LoginFailure == [status |-> 401, body |-> [detail |-> "Email atau password salah"]]
Answer == [status |-> resp.status, body |-> resp.body]

SignedByServer(token) == token.wellformed /\ token.key = SECRET_KEY
HasSubject(token) == token.wellformed /\ "sub" \in DOMAIN token.claims
\* the whole-second clock has passed the exp claim
Expired(token, t) ==
    /\ token.wellformed
    /\ "exp" \in DOMAIN token.claims
    /\ SecondsOf(t) > token.claims.exp
\* the stored accounts the token's subject names
SubjectAccounts(token) ==
    {i \in DOMAIN users : HasSubject(token)
                          /\ OidHex[users[i]._id] = token.claims.sub}
StoredRole(i) == IF "role" \in DOMAIN users[i] THEN users[i].role ELSE "applicant"
Authentic(token) == SignedByServer(token) /\ ~Expired(token, now)

AccountsOf(email) == {i \in DOMAIN users : users[i].email = email}
\* no salt turns the plaintext into the stored credential
Mismatch(i, plain) ==
    \/ "password" \notin DOMAIN users[i]
    \/ users[i].password \notin {Bcrypt[salt][plain] : salt \in Salts}
Unprocessable(i) ==
    \/ "password" \notin DOMAIN users[i]
    \/ users[i].password \in BadHashes

\* C1: no two stored accounts share an email, and a registration answered
\* with success leaves exactly one account for its email.
C1_OneAccountPerEmail ==
    /\ \A i, j \in DOMAIN users : users[i].email = users[j].email => i = j
    /\ (resp.op = "register" /\ resp.status = 201)
          => Cardinality(AccountsOf(resp.arg.email)) = 1

\* C2: the admin listing called with an authentic token whose subject is a
\* stored applicant answers 403 (not 401, not the listing); the listing is
\* returned only to a stored admin.
C2_ApplicantForbidden ==
    resp.op = "admin" =>
        /\ (Authentic(resp.arg)
              /\ \E i \in SubjectAccounts(resp.arg) : StoredRole(i) = "applicant")
             => Answer = [status |-> 403, body |-> [detail |-> "Akses ditolak"]]
        /\ resp.status = 200
             => (\E i \in SubjectAccounts(resp.arg) : StoredRole(i) = "admin")

C2_Witness ==
    /\ resp.op = "admin"
    /\ Authentic(resp.arg)
    /\ \E i \in SubjectAccounts(resp.arg) :
          "role" \in DOMAIN users[i] /\ users[i].role = "applicant"
    /\ resp.status = 403

\* C3: a login with a registered email and a wrong password is answered
\* exactly as a login with an email no account has would be, and the other
\* way round.
C3_LoginFailureIndistinguishable ==
    resp.op = "login" =>
        /\ (AccountsOf(resp.arg.email) # {}
              /\ \A i \in AccountsOf(resp.arg.email) : Mismatch(i, resp.arg.password))
             => \A other \in LoginInputs :
                    AccountsOf(other.email) = {} => login(other, users, now) = Answer
        /\ AccountsOf(resp.arg.email) = {}
             => \A other \in LoginInputs :
                    (AccountsOf(other.email) # {}
                       /\ \A i \in AccountsOf(other.email) : Mismatch(i, other.password))
                    => login(other, users, now) = Answer

C3_Witness ==
    /\ resp.op = "login"
    /\ AccountsOf(resp.arg.email) # {}
    /\ \A i \in AccountsOf(resp.arg.email) : Mismatch(i, resp.arg.password)
    /\ \E other \in LoginInputs : AccountsOf(other.email) = {}
    /\ Answer = LoginFailure

\* C4: a protected operation answers 401 with the one Unauthenticated body
\* whenever the token is malformed, signed with another key, expired,
\* without a subject claim, or with a subject that is no well-formed id.
C4_InvalidTokenUnauthenticated ==
    (/\ resp.op \in Protected
     /\ \/ ~resp.arg.wellformed
        \/ ~SignedByServer(resp.arg)
        \/ Expired(resp.arg, now)
        \/ ~HasSubject(resp.arg)
        \/ resp.arg.claims.sub \notin Range(OidHex))
    => Answer = Unauthenticated

\* C5 as stated: a token issued at t0 with ttl T (12 hours when none is
\* given) is accepted strictly before t0 + T and rejected strictly after.
IssuedTTL(r) == IF r.ttl = <<>> THEN DefaultTTL ELSE r.ttl[1]

EffectiveTTL(r) == IF r.ttl = <<>> \/ r.ttl = <<0>> THEN DefaultTTL ELSE r.ttl[1]

PayloadStrings(body) ==
    IF "access_token" \in DOMAIN body
    THEN {body.token_type}
         \cup {body.access_token.claims[k] : k \in DOMAIN body.access_token.claims \ {"exp"}}
    ELSE IF "items" \in DOMAIN body
    THEN UNION {Range(body.items[i]) : i \in DOMAIN body.items}
    ELSE Range(body)

PayloadKeys(body) ==
    IF "access_token" \in DOMAIN body
    THEN DOMAIN body \cup DOMAIN body.access_token.claims
    ELSE IF "items" \in DOMAIN body
    THEN DOMAIN body \cup UNION {DOMAIN body.items[i] : i \in DOMAIN body.items}
    ELSE DOMAIN body

StoredCredentials ==
    {users[i].password : i \in {j \in DOMAIN users : "password" \in DOMAIN users[j]}}

\* C6: no response body carries a password field, a stored credential or a
\* plaintext password, and the credential stored by a registration differs
\* from the plaintext that registration submitted.
C6_CredentialNeverExposed ==
    /\ resp.op # "none" =>
          /\ "password" \notin PayloadKeys(resp.body)
          /\ PayloadStrings(resp.body) \cap (StoredCredentials \cup Passwords) = {}
    /\ \A r \in registered : \A i \in DOMAIN users :
          OidHex[users[i]._id] = r.id => users[i].password # r.password

C6_Witness ==
    /\ resp.op = "me" /\ resp.status = 200
    /\ \E r \in registered : r.id = resp.body.id
    /\ StoredCredentials # {}

\* C7: a protected operation given an authentic token whose subject is a
\* well-formed id of no stored account answers exactly as it answers an
\* invalid token: 401 Unauthenticated, never a handler's own response.
C7_UnknownSubjectUnauthenticated ==
    (/\ resp.op \in Protected
     /\ Authentic(resp.arg)
     /\ HasSubject(resp.arg)
     /\ resp.arg.claims.sub \in Range(OidHex)
     /\ SubjectAccounts(resp.arg) = {})
    => /\ Answer = Unauthenticated
       /\ Answer = me(Malformed, users, now)

C7_Witness ==
    /\ resp.op = "admin"
    /\ Authentic(resp.arg)
    /\ HasSubject(resp.arg)
    /\ resp.arg.claims.sub \in Range(OidHex)
    /\ SubjectAccounts(resp.arg) = {}
    /\ users # <<>>
    /\ Answer = Unauthenticated

\* C8: for every registration answered with success, a login with its
\* email and password is answered with a token, a login with its email and
\* any other password is refused, and the current account resolved with
\* that token is the registered id, email and role.
C8_RegisterLoginMe ==
    \A r \in registered :
        LET answer == login([email |-> r.email, password |-> r.password], users, now)
        IN  /\ answer.status = 200
            /\ \A q \in Passwords \ {r.password} :
                  login([email |-> r.email, password |-> q], users, now).status # 200
            /\ me(answer.body.access_token, users, now)
                  = [status |-> 200,
                     body |-> MeResponse(r.id, FullName, r.email, r.role)]

\* C9: verify_password returns false, without raising, for every plaintext
\* against every stored value the hasher cannot process, and a login
\* against an account with such a credential, or with none, is answered
\* with the generic login failure.
C9_VerifyFailsClosed ==
    /\ \A plain \in Passwords, h \in BadHashes :
          verify_password(plain, h) = [raised |-> FALSE, value |-> FALSE]
    /\ (/\ resp.op = "login"
        /\ \E i \in AccountsOf(resp.arg.email) :
              /\ \A j \in AccountsOf(resp.arg.email) : i <= j
              /\ Unprocessable(i))
       => Answer = LoginFailure

C9_Witness ==
    /\ resp.op = "login"
    /\ \E i \in AccountsOf(resp.arg.email) :
          "password" \in DOMAIN users[i] /\ users[i].password \in BadHashes
    /\ Answer = LoginFailure

\* C10: when the token is authentic and the stored role of its subject
\* differs from the role claim, the admin listing is admitted exactly when
\* the stored role is admin, and the current-account view reports the
\* stored email and role.
C10_StoredAccountDecides ==
    resp.op \in Protected => \A i \in SubjectAccounts(resp.arg) :
        (/\ Authentic(resp.arg)
         /\ resp.arg.claims.role # StoredRole(i))
        => /\ resp.op = "admin" =>
                IF StoredRole(i) = "admin"
                THEN resp.status = 200
                     \/ Answer = [status |-> 500, body |-> [detail |-> "store error"]]
                ELSE Answer = [status |-> 403, body |-> [detail |-> "Akses ditolak"]]
           /\ resp.op = "me" =>
                /\ resp.status = 200
                /\ resp.body.email = users[i].email
                /\ resp.body.role = StoredRole(i)

C10_Witness ==
    /\ resp.op = "admin"
    /\ resp.arg \in HeldTokens
    /\ resp.arg.claims.role = "applicant"
    /\ \E i \in SubjectAccounts(resp.arg) : StoredRole(i) = "admin"
    /\ resp.status = 200
====
